---- MODULE Spec2Model ----
(***************************************************************************)
(* Model of web/src/components/card/EmptyCard.tsx: the EmptyCard function  *)
(* component.  A configuration (props) is drawn from bounded sets and the  *)
(* component is rendered once; the result is the tree of nodes React       *)
(* produces from the JSX the function returns.  JavaScript values are      *)
(* tagged records so that undefined, "", 0 and elements stay distinct and  *)
(* the operators &&, ?. and ?? are computed as JavaScript computes them.   *)
(***************************************************************************)
EXTENDS Integers, Sequences, FiniteSets

VARIABLES props, rendered

vars == <<props, rendered>>

\* ------------------------------------------------------------------------
\* Bounds
\* ------------------------------------------------------------------------

\* longest string drawn for a string prop
MaxLen == 1

\* alphabet of the strings; "#" is there so that a supplied link can
\* coincide with the fallback target
Chars == {"a", "#"}

\* ------------------------------------------------------------------------
\* JavaScript values
\* ------------------------------------------------------------------------

Undefined == [type |-> "undefined"]

Str(s) == [type |-> "string", chars |-> s]

Num(n) == [type |-> "number", val |-> n]

TypeError == [type |-> "throw"]

Element(tag, attrs, children) ==
    [type |-> "element", tag |-> tag, attrs |-> attrs, children |-> children]

\* a DOM text node
Text(s) == [type |-> "text", chars |-> s]

Strings == UNION {[1..k -> Chars] : k \in 0..MaxLen}

\* an optional string prop: left out, or any string (the empty one included)
OptString == {Undefined} \cup {Str(s) : s \in Strings}

\* ToBoolean
Truthy(v) ==
    CASE v.type = "undefined" -> FALSE
      [] v.type = "throw"     -> FALSE
      [] v.type = "string"    -> Len(v.chars) > 0
      [] v.type = "number"    -> v.val # 0
      [] OTHER                -> TRUE

IsNullish(v) == v.type = "undefined"

\* a || b, used by the mutants only
JsOr(a, b) == IF Truthy(a) THEN a ELSE b

\* a && b : the left operand itself when it is falsy, else the right one
JsAnd(a, b) == IF Truthy(a) THEN b ELSE a

\* v.length : reading a property of undefined throws
Length(v) == IF IsNullish(v) THEN TypeError ELSE Num(Len(v.chars))

OptionalLength_NoGuard(v) == Length(v)

\* v?.length
OptionalLength(v) == IF IsNullish(v) THEN Undefined ELSE Length(v)

NullishCoalesce_AlwaysDefault(a, b) == b

NullishCoalesce_Or(a, b) == JsOr(a, b)

\* a ?? b
NullishCoalesce(a, b) == IF IsNullish(a) THEN b ELSE a

Digit(d) ==
    CASE d = 0 -> "0" [] d = 1 -> "1" [] d = 2 -> "2" [] d = 3 -> "3"
      [] d = 4 -> "4" [] d = 5 -> "5" [] d = 6 -> "6" [] d = 7 -> "7"
      [] d = 8 -> "8" [] d = 9 -> "9"

RECURSIVE NumberToString(_)
\* decimal digits of a natural number
NumberToString(n) ==
    IF n < 10 THEN <<Digit(n)>>
    ELSE NumberToString(n \div 10) \o <<Digit(n % 10)>>

\* ------------------------------------------------------------------------
\* React: what a JSX child expression contributes to the output
\* ------------------------------------------------------------------------

\* undefined and the empty string produce no node
Skipped(v) ==
    \/ v.type = "undefined"
    \/ (v.type = "string" /\ v.chars = <<>>)

\* a string or a number becomes a text node, an element is kept
RenderChild(v) ==
    CASE v.type = "string" -> Text(v.chars)
      [] v.type = "number" -> Text(NumberToString(v.val))
      [] OTHER             -> v

ReactChildren(exprs) ==
    LET kept == SelectSeq(exprs, LAMBDA v : ~Skipped(v))
    IN  [i \in 1..Len(kept) |-> RenderChild(kept[i])]

\* ------------------------------------------------------------------------
\* EmptyCard
\* ------------------------------------------------------------------------

\* the icons a caller passes: React elements
Icons == {Element("svg", [name |-> "list"], <<>>),
          Element("svg", [name |-> "search"], <<>>)}

\* EmptyCardProps
Configs ==
    [className   : OptString,
     icon        : Icons,
     title       : {Str(s) : s \in Strings},
     description : OptString,
     buttonText  : OptString,
     link        : OptString]

\* the arguments handed to cn() for the container's class
ContainerClass(className) == <<"flex flex-col items-center gap-2", className>>

\* <Heading as="h4">{title}</Heading>
HeadingSlot(p) == Element("Heading", [as |-> "h4"], ReactChildren(<<p.title>>))

\* <div className="mb-3 text-secondary-foreground">{description}</div>
DescriptionElement(p) ==
    Element("div", [className |-> "mb-3 text-secondary-foreground"],
            ReactChildren(<<p.description>>))

DescriptionSlot_Unguarded(p) == DescriptionElement(p)

DescriptionSlot_NeedsButton(p) ==
    JsAnd(JsAnd(p.description, p.buttonText), DescriptionElement(p))

DescriptionSlot_Or(p) == JsOr(p.description, DescriptionElement(p))

\* {description && (<div ...>)}
DescriptionSlot(p) == JsAnd(p.description, DescriptionElement(p))

\* <Link to={link ?? "#"}>{buttonText}</Link>
LinkElement(p) ==
    Element("Link", [to |-> NullishCoalesce(p.link, Str(<<"#">>))],
            ReactChildren(<<p.buttonText>>))

\* <Button size="sm" variant="select"> ... </Button>
ButtonElement(p) ==
    Element("Button", [size |-> "sm", variant |-> "select"],
            ReactChildren(<<LinkElement(p)>>))

ActionSlot_Unguarded(p) == ButtonElement(p)

\* {buttonText?.length && (<Button ...>)}
ActionSlot(p) == JsAnd(OptionalLength(p.buttonText), ButtonElement(p))

ChildExprs_ActionFirst(p) ==
    <<p.icon, HeadingSlot(p), ActionSlot(p), DescriptionSlot(p)>>

ChildExprs_HeadingFirst(p) ==
    <<HeadingSlot(p), p.icon, DescriptionSlot(p), ActionSlot(p)>>

\* the four child expressions of the container, in source order
ChildExprs(p) ==
    <<p.icon, HeadingSlot(p), DescriptionSlot(p), ActionSlot(p)>>

\* the function component: an exception in a child expression leaves it
EmptyCard(p) ==
    LET exprs == ChildExprs(p)
    IN  IF \E i \in 1..Len(exprs) : exprs[i].type = "throw"
        THEN TypeError
        ELSE Element("div", [className |-> ContainerClass(p.className)],
                     ReactChildren(exprs))

\* ------------------------------------------------------------------------
\* State machine
\* ------------------------------------------------------------------------

NotRendered == [type |-> "none"]

Init ==
    /\ props \in Configs
    /\ rendered = NotRendered

\* the single render invocation
Render ==
    /\ rendered = NotRendered
    /\ rendered' = EmptyCard(props)
    /\ UNCHANGED props

Next == Render

Spec == Init /\ [][Next]_vars

\* ------------------------------------------------------------------------
\* Reading the output
\* ------------------------------------------------------------------------

Done == rendered.type = "element"

Kids == rendered.children

NonEmpty(v) == v.type = "string" /\ Len(v.chars) > 0

EmptyOrAbsent(v) == v = Undefined \/ v = Str(<<>>)

IsTag(n, tag) == n.type = "element" /\ n.tag = tag

\* the text inside an element that holds at most one text node
TextOf(n) == IF n.children = <<>> THEN <<>> ELSE n.children[1].chars

\* a Button or a Link, at the top level or one level down
IsActionNode(n) == IsTag(n, "Button") \/ IsTag(n, "Link")

HasActionNode(n) ==
    \/ IsActionNode(n)
    \/ (n.type = "element" /\ \E j \in 1..Len(n.children) : IsActionNode(n.children[j]))

ActionIndexes == {i \in 1..Len(Kids) : HasActionNode(Kids[i])}

DescriptionIndexes == {i \in 1..Len(Kids) : IsTag(Kids[i], "div")}

IsHeadingOf(n, title) == IsTag(n, "Heading") /\ n.attrs.as = "h4" /\ TextOf(n) = title.chars

IsDescriptionOf(n, description) == IsTag(n, "div") /\ TextOf(n) = description.chars

\* a Button wrapping exactly one Link with the given label and target
IsActionOf(n, label, target) ==
    /\ IsTag(n, "Button")
    /\ Len(n.children) = 1
    /\ IsTag(n.children[1], "Link")
    /\ n.children[1].attrs.to = target
    /\ n.children[1].children = <<Text(label.chars)>>

\* the tag of an element, "text" for a text node
Kind(n) == IF n.type = "element" THEN n.tag ELSE "text"

KindsOf(tree) == [i \in 1..Len(tree.children) |-> Kind(tree.children[i])]

\* ------------------------------------------------------------------------
\* Claims
\* ------------------------------------------------------------------------

\* C1: when buttonText is absent or the empty string, the output holds no
\* action element, neither a Button nor a Link, whatever the other props.
C1_NoActionWhenEmptyOrAbsent ==
    (rendered # NotRendered /\ EmptyOrAbsent(props.buttonText))
        => (Done /\ ActionIndexes = {})

C1_Witness ==
    /\ Done
    /\ props.buttonText = Str(<<>>)
    /\ NonEmpty(props.description)
    /\ NonEmpty(props.link)
    /\ props.className = Undefined

\* C2: when buttonText is a non-empty string, the output holds exactly one
\* action element, labelled buttonText, targeting link when link is given
\* and "#" when link is absent.
C2_OneActionWithTarget ==
    (rendered # NotRendered /\ NonEmpty(props.buttonText))
        => /\ Done
           /\ Cardinality(ActionIndexes) = 1
           /\ \A i \in ActionIndexes :
                IsActionOf(Kids[i], props.buttonText,
                           IF props.link = Undefined THEN Str(<<"#">>) ELSE props.link)

C2_Witness ==
    /\ Done
    /\ NonEmpty(props.buttonText)
    /\ props.link = Str(<<"a">>)
    /\ props.description = Undefined
    /\ Cardinality(ActionIndexes) = 1

\* C3: when description is absent, the output holds no description line,
\* whatever the other props.
C3_NoDescriptionWhenAbsent ==
    (rendered # NotRendered /\ props.description = Undefined)
        => (Done /\ DescriptionIndexes = {})

C3_Witness ==
    /\ Done
    /\ props.description = Undefined
    /\ NonEmpty(props.buttonText)
    /\ props.link = Undefined
    /\ NonEmpty(props.className)

\* C4: with description and buttonText both absent, the container holds
\* the icon and the heading carrying the title, and nothing else.
C4_OnlyIconAndHeading ==
    (rendered # NotRendered /\ props.description = Undefined /\ props.buttonText = Undefined)
        => /\ Done
           /\ Len(Kids) = 2
           /\ Kids[1] = props.icon
           /\ IsHeadingOf(Kids[2], props.title)

C4_Witness ==
    /\ Done
    /\ props.description = Undefined
    /\ props.buttonText = Undefined
    /\ NonEmpty(props.title)
    /\ Len(Kids) = 2

\* C5: with a non-empty description, a non-empty buttonText and a link, the
\* container holds exactly four elements in order: icon, heading with the
\* title, description line with the description, action labelled buttonText
\* targeting link.
C5_FourChildrenInOrder ==
    (rendered # NotRendered /\ NonEmpty(props.description)
        /\ NonEmpty(props.buttonText) /\ props.link # Undefined)
        => /\ Done
           /\ Len(Kids) = 4
           /\ Kids[1] = props.icon
           /\ IsHeadingOf(Kids[2], props.title)
           /\ IsDescriptionOf(Kids[3], props.description)
           /\ IsActionOf(Kids[4], props.buttonText, props.link)

C5_Witness ==
    /\ Done
    /\ NonEmpty(props.title)
    /\ NonEmpty(props.description)
    /\ NonEmpty(props.buttonText)
    /\ NonEmpty(props.link)
    /\ Len(Kids) = 4

\* C6: rendering never fails: for every combination of present, absent and
\* empty optional props the render yields the container element, and an
\* absent optional prop only leaves its own element out (absent description:
\* no description line; absent buttonText: nothing after the description
\* slot; absent link or className: the same kinds of children as when it
\* is given).
C6_NoErrorOutcome ==
    rendered # NotRendered =>
        /\ Done
        /\ IsTag(rendered, "div")
        /\ Len(Kids) >= 2
        /\ Kids[1] = props.icon
        /\ IsHeadingOf(Kids[2], props.title)
        /\ props.description = Undefined => DescriptionIndexes = {}
        /\ props.buttonText = Undefined =>
             Len(Kids) = 2 + Cardinality(DescriptionIndexes)
        /\ props.link = Undefined =>
             /\ NonEmpty(props.buttonText) => Cardinality(ActionIndexes) = 1
             /\ LET given == EmptyCard([props EXCEPT !.link = Str(<<"a">>)])
                IN  given.type = "element" /\ KindsOf(given) = KindsOf(rendered)
        /\ props.className = Undefined =>
             LET given == EmptyCard([props EXCEPT !.className = Str(<<"a">>)])
             IN  given.type = "element" /\ given.children = Kids

C6_Witness ==
    /\ Done
    /\ props.className = Undefined
    /\ props.description = Undefined
    /\ props.buttonText = Undefined
    /\ props.link = Undefined

\* C7: with buttonText the empty string the rendered children are the same
\* as with buttonText absent; the guard of the action leaves nothing (no
\* "0") in the output.
C7_EmptySameAsAbsent ==
    (rendered # NotRendered /\ props.buttonText = Str(<<>>))
        => /\ Done
           /\ Kids = EmptyCard([props EXCEPT !.buttonText = Undefined]).children
           /\ \A i \in 1..Len(Kids) : Kids[i].type # "text"

\* C8: the icon and the heading are always rendered, icon first and heading
\* second, and the heading text is the title, whatever description,
\* buttonText, link and className are.
C8_IconThenHeading ==
    rendered # NotRendered =>
        /\ Done
        /\ Len(Kids) >= 2
        /\ Kids[1] = props.icon
        /\ IsHeadingOf(Kids[2], props.title)
        /\ \A i \in 3..Len(Kids) : Kids[i] # props.icon /\ ~IsTag(Kids[i], "Heading")

C8_Witness ==
    /\ Done
    /\ NonEmpty(props.title)
    /\ NonEmpty(props.description)
    /\ props.buttonText = Undefined
    /\ Kids[1] = props.icon

\* C9: "#" is the target only when link is absent: with a non-empty
\* buttonText and link the empty string, the target is the empty string.
C9_EmptyLinkKept ==
    (rendered # NotRendered /\ NonEmpty(props.buttonText) /\ props.link = Str(<<>>))
        => /\ Done
           /\ ActionIndexes # {}
           /\ \A i \in ActionIndexes :
                /\ IsActionOf(Kids[i], props.buttonText, Str(<<>>))
                /\ Kids[i].children[1].attrs.to # Str(<<"#">>)

C9_Witness ==
    /\ Done
    /\ NonEmpty(props.buttonText)
    /\ props.link = Str(<<>>)
    /\ ActionIndexes # {}

\* C10: the description line is rendered exactly when description is a
\* non-empty string, the action exactly when buttonText is one, and
\* className and link change neither the number nor the order of the
\* rendered children.
C10_Independent ==
    rendered # NotRendered =>
        /\ Done
        /\ Cardinality(DescriptionIndexes) = (IF NonEmpty(props.description) THEN 1 ELSE 0)
        /\ Cardinality(ActionIndexes) = (IF NonEmpty(props.buttonText) THEN 1 ELSE 0)
        /\ \A c \in OptString, l \in OptString :
             LET other == EmptyCard([props EXCEPT !.className = c, !.link = l])
             IN  other.type = "element" /\ KindsOf(other) = KindsOf(rendered)

C10_Witness ==
    /\ Done
    /\ NonEmpty(props.description)
    /\ props.buttonText = Undefined
    /\ NonEmpty(props.link)
    /\ NonEmpty(props.className)
    /\ Cardinality(DescriptionIndexes) = 1
    /\ ActionIndexes = {}

====
